---- MODULE Spec2Model ----
(***************************************************************************)
(* Model of the Dyntaxa Lepidoptera refresh pipeline:                      *)
(*   scripts/create_refresh_list.py  (cache, staleness, batch refresh,     *)
(*                                    main pipeline, source revision)      *)
(*   scripts/dyntaxa_sqlite.py       (taxa / runs / changes / meta store)  *)
(*                                                                         *)
(* Specifications:                                                         *)
(*   SpecStore  the reconciliation store driven call by call               *)
(*   SpecConc   two writers interleaving their store transactions          *)
(*   SpecCache  the cache store driven call by call, with a clock          *)
(*   SpecPipe   consecutive runs of main() against cache, store and remote *)
(***************************************************************************)
EXTENDS Integers, Sequences, FiniteSets, TLC

VARIABLES
    taxa,              \* taxa table: taxon_id -> row (only existing rows)
    changes,           \* changes table, in change_id order
    runs,              \* runs table, run_id = position
    next_local_index,  \* meta['next_local_index']
    last_source_hash,  \* meta['last_source_hash']
    data,              \* cache payload files <id>.json: id -> taxon object
    meta,              \* cache metadata files <id>.meta.json: id -> meta dict
    now,               \* the clock read by _now()
    source_rev,        \* lepidoptera_source_rev.json: <<>> or <<dict>>
    ret,               \* the last call made on a store and what it returned
    pc,                \* position of main()
    run,               \* locals of main()
    wpc,               \* per writer: position inside upsert_taxon / deactivate
    wloc,              \* per writer: locals of the call in progress
    handed,            \* values returned by alloc_local_index, in order
    nruns,             \* invocations of main() so far
    hist               \* root and sorted child ids of the last invocation
                       \* that ran to completion: <<>> or <<record>>

vars == <<taxa, changes, runs, next_local_index, last_source_hash, data, meta,
          now, source_rev, ret, pc, run, wpc, wloc, handed, nruns, hist>>

storeVars == <<taxa, changes, runs, next_local_index, last_source_hash>>
cacheVars == <<data, meta>>
pipeVars  == <<pc, run, source_rev, nruns, hist>>
concVars  == <<wpc, wloc, handed>>

(***************************************************************************)
(* Bounds of the model                                                     *)
(***************************************************************************)
MaxTime      == 3    \* the clock of cache and pipeline runs over 1..MaxTime
MaxStoreTime == 2    \* the clock when the store is driven call by call
MaxIds       == 2    \* length of an id list
MaxRuns      == 3    \* invocations of main()
MaxChanges   == 3    \* rows of the changes table
MaxStoreRuns == 1    \* begin_run calls when the store is driven call by call
MaxAgedRuns  == 2    \* invocations of main() when the clock runs between them
MaxAgedTime  == 2    \* the clock of those invocations runs over 1..MaxAgedTime
MaxConcRuns  == 3    \* begin_run calls of the two concurrent writers together

(***************************************************************************)
(* Values                                                                  *)
(***************************************************************************)
\* Python None for an integer or text column / argument (hashes are >= 1).
NoSha == 0

TaxonIds == {1, 2}

\* A taxon object as returned by POST /taxa, reduced to the fields the code
\* reads: taxonId, category.value, type.value, status.value and the first
\* ScientificName of names[].
TaxonObj(tid, cat, ty, st, nm) ==
    [taxonId |-> tid, category |-> cat, type |-> ty, status |-> st, name |-> nm]

\* The objects the store and the cache are driven with: per id a species
\* record and a genus record with another name.
TaxonObjs ==
    {TaxonObj(t, "Species", "Taxonomic", "Accepted", "a") : t \in TaxonIds} \cup
    {TaxonObj(t, "Genus", "Taxonomic", "Accepted", "b") : t \in TaxonIds}

\* The objects the remote serves to the pipeline: the above and the species
\* record under another name (a changed content of a target record).
RemoteObjs ==
    TaxonObjs \cup {TaxonObj(t, "Species", "Taxonomic", "Accepted", "b") : t \in TaxonIds}

Code(S, x) == IF x \in S THEN 1 ELSE 0

\* taxon_sha256: the digest of the canonical JSON of the object.  Distinct
\* objects have distinct canonical JSON; the digest is modelled as an
\* injective numbering of the objects (>= 1, so never NoSha).
taxon_sha256(obj) ==
    1 + Code({"Species"}, obj.category)
      + 2 * Code({"Taxonomic"}, obj.type)
      + 4 * Code({"Accepted"}, obj.status)
      + 8 * Code({"a"}, obj.name)
      + 16 * obj.taxonId

\* json.dumps(taxon_obj, sort_keys=True): the canonical text determines the
\* object and the object determines it; kept as the object.
raw_json(obj) == obj

SeqToSet(s) == {s[i] : i \in 1..Len(s)}

(***************************************************************************)
(* dyntaxa_sqlite.py                                                       *)
(***************************************************************************)

\* alloc_local_index: BEGIN IMMEDIATE; read counter; write counter+1; commit.
\* Returns the value handed out and the new counter.
alloc_local_index_lost(counter) == [index |-> counter, counter |-> counter]
alloc_local_index_down(counter) == [index |-> counter, counter |-> counter - 1]
alloc_local_index(counter) == [index |-> counter, counter |-> counter + 1]

\* line 220: unchanged and already active => no-op
is_noop(make_active, old_active, sha256, old_sha) ==
    make_active /\ old_active = 1 /\ sha256 # NoSha /\ old_sha = sha256

\* line 224: reactivation (was inactive)
is_reactivation_never(make_active, old_active) == FALSE
is_reactivation(make_active, old_active) == make_active /\ old_active = 0

\* line 241: update if sha differs OR sha missing
needs_update_always(sha256, old_sha) == TRUE
needs_update_differs(sha256, old_sha) == old_sha # sha256
needs_update(sha256, old_sha) == sha256 = NoSha \/ old_sha # sha256

\* line 207: the is_active value of an inserted row
insert_active_flag_always(make_active) == 1
insert_active_flag(make_active) == IF make_active THEN 1 ELSE 0

\* The row INSERTed into changes (change_id is its position).
ChangeRow_updated(run_id, tid, kind, old_sha, new_sha, at) ==
    [run_id |-> run_id, taxon_id |-> tid, change_type |-> "updated",
     old_sha256 |-> old_sha, new_sha256 |-> new_sha, at |-> at]
ChangeRow(run_id, tid, kind, old_sha, new_sha, at) ==
    [run_id |-> run_id, taxon_id |-> tid, change_type |-> kind,
     old_sha256 |-> old_sha, new_sha256 |-> new_sha, at |-> at]

TaxaRow(local_index, obj, active, sha256, at) ==
    [local_index |-> local_index, sci_name |-> obj.name,
     category |-> obj.category, type |-> obj.type, status |-> obj.status,
     is_active |-> active, sha256 |-> sha256, updated_at |-> at,
     raw_json |-> raw_json(obj)]

\* The store as a value, so that a call is a function from store to store.
Store(t, c, n) == [taxa |-> t, changes |-> c, next_local_index |-> n]
CurStore == Store(taxa, changes, next_local_index)

\* local_index is UNIQUE: an INSERT carrying an index some row holds raises
\* IntegrityError and the transaction is rolled back.
IndexTaken(st, idx) == \E t \in DOMAIN st.taxa : st.taxa[t].local_index = idx

\* line 200-214: the INSERT of a new row with the index allocated for it,
\* and of its 'inserted' change, in one transaction.  taxon_id is the
\* PRIMARY KEY and local_index is UNIQUE: a conflict raises IntegrityError
\* and nothing of the transaction is kept.
upsert_insert(st, local_index, run_id, obj, sha256, make_active, at) ==
    LET tid == obj.taxonId IN
    IF tid \in DOMAIN st.taxa \/ IndexTaken(st, local_index)
    THEN [kind |-> "IntegrityError", store |-> st]
    ELSE [kind |-> "inserted",
          store |-> Store(
              [t \in DOMAIN st.taxa \cup {tid} |->
                  IF t = tid
                  THEN TaxaRow(local_index, obj, insert_active_flag(make_active),
                               sha256, at)
                  ELSE st.taxa[t]],
              Append(st.changes,
                     ChangeRow(run_id, tid, "inserted", NoSha, sha256, at)),
              st.next_local_index)]

\* line 216-257: the taxon has a row.  `row` is what the SELECT of line 195
\* returned (old_sha, old_active); the UPDATE applies to the row as it is in
\* the store when the statement runs (local_index is not in its SET list).
upsert_existing(st, row, run_id, obj, sha256, make_active, at) ==
    LET tid == obj.taxonId
        old_sha == row.sha256
        old_active == row.is_active
        cur == st.taxa[tid]
    IN
    IF is_noop(make_active, old_active, sha256, old_sha)
    THEN [kind |-> "unchanged", store |-> st]
    ELSE IF is_reactivation(make_active, old_active)
    THEN [kind |-> "reactivated",
          store |-> Store(
              [st.taxa EXCEPT ![tid] =
                  TaxaRow(cur.local_index, obj, 1, sha256, at)],
              Append(st.changes,
                     ChangeRow(run_id, tid, "reactivated", old_sha, sha256, at)),
              st.next_local_index)]
    ELSE IF needs_update(sha256, old_sha)
    THEN [kind |-> "updated",
          store |-> Store(
              [st.taxa EXCEPT ![tid] =
                  TaxaRow(cur.local_index, obj,
                          IF make_active THEN 1 ELSE old_active, sha256, at)],
              Append(st.changes,
                     ChangeRow(run_id, tid, "updated", old_sha, sha256, at)),
              st.next_local_index)]
    ELSE [kind |-> "unchanged", store |-> st]

\* upsert_taxon(con, run_id, taxon_obj, sha256, make_active) run without
\* interleaving: the change type returned and the store after the call.
upsert_taxon(st, run_id, obj, sha256, make_active, at) ==
    LET tid == obj.taxonId IN
    IF tid \notin DOMAIN st.taxa
    THEN LET a == alloc_local_index(st.next_local_index) IN
         upsert_insert(Store(st.taxa, st.changes, a.counter), a.index,
                       run_id, obj, sha256, make_active, at)
    ELSE upsert_existing(st, st.taxa[tid], run_id, obj, sha256, make_active, at)

\* The ids of a set in ascending order: the order in which SQLite returns
\* the rows of taxa (INTEGER PRIMARY KEY, so taxon_id is the rowid).
RECURSIVE Ascending(_)
Ascending(S) ==
    IF S = {} THEN <<>>
    ELSE LET m == CHOOSE x \in S : \A y \in S : x <= y
         IN <<m>> \o Ascending(S \ {m})

\* line 265-269: the active Species rows whose id is not in active_taxon_ids
to_deactivate_inverted(st, active_taxon_ids) ==
    Ascending({t \in DOMAIN st.taxa :
                  /\ st.taxa[t].is_active = 1
                  /\ st.taxa[t].category = "Species"
                  /\ t \in active_taxon_ids})
to_deactivate(st, active_taxon_ids) ==
    Ascending({t \in DOMAIN st.taxa :
                  /\ st.taxa[t].is_active = 1
                  /\ st.taxa[t].category = "Species"
                  /\ t \notin active_taxon_ids})

\* line 274-280: one row set inactive, one 'deactivated' change appended
deactivate_one_rehashed(st, run_id, tid, at) ==
    LET old_sha == st.taxa[tid].sha256 IN
    Store([st.taxa EXCEPT ![tid].is_active = 0, ![tid].updated_at = at,
                          ![tid].sha256 = NoSha],
          Append(st.changes,
                 ChangeRow(run_id, tid, "deactivated", old_sha, NoSha, at)),
          st.next_local_index)
deactivate_one_reindexed(st, run_id, tid, at) ==
    LET old_sha == st.taxa[tid].sha256 IN
    Store([st.taxa EXCEPT ![tid].is_active = 0, ![tid].updated_at = at,
                          ![tid].local_index = st.next_local_index],
          Append(st.changes,
                 ChangeRow(run_id, tid, "deactivated", old_sha, old_sha, at)),
          st.next_local_index)
deactivate_one_silent(st, run_id, tid, at) ==
    Store([st.taxa EXCEPT ![tid].is_active = 0, ![tid].updated_at = at],
          st.changes, st.next_local_index)
deactivate_one(st, run_id, tid, at) ==
    LET old_sha == st.taxa[tid].sha256 IN
    Store([st.taxa EXCEPT ![tid].is_active = 0, ![tid].updated_at = at],
          Append(st.changes,
                 ChangeRow(run_id, tid, "deactivated", old_sha, old_sha, at)),
          st.next_local_index)

RECURSIVE deactivate_all(_, _, _, _)
deactivate_all(st, run_id, tids, at) ==
    IF tids = <<>> THEN st
    ELSE deactivate_all(deactivate_one(st, run_id, Head(tids), at),
                        run_id, Tail(tids), at)

\* deactivate_missing_species(con, run_id, active_taxon_ids): the count
\* returned and the store after the call.
deactivate_missing_species(st, run_id, active_taxon_ids, at) ==
    LET tids == to_deactivate(st, active_taxon_ids) IN
    [count |-> Len(tids), store |-> deactivate_all(st, run_id, tids, at)]

\* begin_run: the row inserted into runs (counts are NULL until end_run).
NullCount == 0 - 1
RunRow(at, root, child_count, source_hash) ==
    [started_at |-> at, finished_at |-> 0, lepidoptera_taxon_id |-> root,
     child_ids_count |-> child_count, source_hash |-> source_hash,
     species_count |-> NullCount, inserted_count |-> NullCount,
     updated_count |-> NullCount, unchanged_count |-> NullCount,
     deactivated_count |-> NullCount]

\* end_run: the UPDATE of the run's row.
end_run(row, at, species_count, inserted, updated, unchanged, deactivated) ==
    [row EXCEPT !.finished_at = at, !.species_count = species_count,
                !.inserted_count = inserted, !.updated_count = updated,
                !.unchanged_count = unchanged,
                !.deactivated_count = deactivated]

\* No source hash: None as an argument, '' in meta after db_open.
NoHash == <<>>

RootId == 7

(***************************************************************************)
(* create_refresh_list.py: cache                                           *)
(***************************************************************************)
\* The cache directory as a value: the payload files and the metadata files
\* present, by taxon id (_cache_paths gives each id its own pair of files).
Cache(d, m) == [data |-> d, meta |-> m]
CurCache == Cache(data, meta)

\* A payload argument: <<>> for None, <<obj>> for a dict.
NoPayload == <<>>

Put(f, k, v) == [x \in DOMAIN f \cup {k} |-> IF x = k THEN v ELSE f[x]]
Drop(f, k) == [x \in DOMAIN f \ {k} |-> f[x]]

\* A metadata file whose content is not what _write_cache dumps: text that
\* json.loads rejects (or a file that cannot be read), or valid JSON that is
\* not an object (a list, a string), on which meta.get raises AttributeError.
InvalidJson == [malformed |-> "invalid_json"]
NotADict == [malformed |-> "not_a_dict"]
Malformed(m) == "malformed" \in DOMAIN m

\* line 121-122: _read_json raises
read_json_raises(m) == Malformed(m) /\ m.malformed = "invalid_json"

\* line 239 and 250: meta.get raises
meta_get_raises(m) == Malformed(m) /\ m.malformed = "not_a_dict"

\* _cache_needs_refresh(meta, ttl_seconds), reading the clock at `at`
cache_needs_refresh_late(m, ttl_seconds, at) ==
    IF m.fetched_at <= 0 THEN TRUE
    ELSE IF ttl_seconds <= 0 THEN FALSE
    ELSE (at - m.fetched_at) > ttl_seconds
cache_needs_refresh(m, ttl_seconds, at) ==
    IF m.fetched_at <= 0 THEN TRUE
    ELSE IF ttl_seconds <= 0 THEN FALSE
    ELSE (at - m.fetched_at) >= ttl_seconds

\* get_taxon_cached(cache_dir, taxon_id, ttl_seconds): <<payload>> or <<>>
get_taxon_cached(c, tid, ttl_seconds, at) ==
    IF tid \in DOMAIN c.data /\ tid \in DOMAIN c.meta
    THEN IF ~cache_needs_refresh(c.meta[tid], ttl_seconds, at)
              /\ c.meta[tid].status = 200
         THEN <<c.data[tid]>>
         ELSE NoPayload
    ELSE NoPayload

\* _write_cache(cache_dir, taxon_id, status, payload): the metadata dict has
\* the key sha256 only in the 200 branch (NoSha: meta.get("sha256") is None).
write_cache_keep(c, tid, status, payload, at) ==
    IF status = 200 /\ payload # NoPayload
    THEN Cache(Put(c.data, tid, payload[1]),
               Put(c.meta, tid, [taxon_id |-> tid, status |-> status,
                                 fetched_at |-> at,
                                 sha256 |-> taxon_sha256(payload[1])]))
    ELSE Cache(c.data,
               Put(c.meta, tid, [taxon_id |-> tid, status |-> status,
                                 fetched_at |-> at, sha256 |-> NoSha]))
write_cache(c, tid, status, payload, at) ==
    IF status = 200 /\ payload # NoPayload
    THEN Cache(Put(c.data, tid, payload[1]),
               Put(c.meta, tid, [taxon_id |-> tid, status |-> status,
                                 fetched_at |-> at,
                                 sha256 |-> taxon_sha256(payload[1])]))
    ELSE Cache(Drop(c.data, tid),
               Put(c.meta, tid, [taxon_id |-> tid, status |-> status,
                                 fetched_at |-> at, sha256 |-> NoSha]))

\* _write_cache ended by a crash or a kill after line 264-269 (the data file
\* is written or unlinked) and before line 271 (the metadata file is written)
write_cache_interrupted(c, tid, status, payload) ==
    IF status = 200 /\ payload # NoPayload
    THEN Cache(Put(c.data, tid, payload[1]), c.meta)
    ELSE Cache(Drop(c.data, tid), c.meta)

\* line 277-286: whether _taxon_ids_to_fetch appends tid to its output
must_fetch(c, tid, ttl_seconds, at) ==
    IF tid \notin DOMAIN c.meta \/ tid \notin DOMAIN c.data THEN TRUE
    ELSE IF read_json_raises(c.meta[tid]) THEN TRUE
    ELSE cache_needs_refresh(c.meta[tid], ttl_seconds, at)

\* line 248-250: get_taxon_cached reads the metadata outside any try block;
\* the exception of _read_json or of meta.get leaves the function.
get_taxon_cached_raises(c, tid) ==
    /\ tid \in DOMAIN c.data /\ tid \in DOMAIN c.meta
    /\ (read_json_raises(c.meta[tid]) \/ meta_get_raises(c.meta[tid]))

\* line 280-285: the try block of _taxon_ids_to_fetch covers _read_json only;
\* _cache_needs_refresh is called after it.
taxon_ids_to_fetch_raises(c, all_ids) ==
    \E i \in 1..Len(all_ids) :
        /\ all_ids[i] \in DOMAIN c.data /\ all_ids[i] \in DOMAIN c.meta
        /\ meta_get_raises(c.meta[all_ids[i]])

\* _taxon_ids_to_fetch(cache_dir, all_ids, ttl_seconds)
RECURSIVE taxon_ids_to_fetch(_, _, _, _)
taxon_ids_to_fetch(c, all_ids, ttl_seconds, at) ==
    IF all_ids = <<>> THEN <<>>
    ELSE (IF must_fetch(c, Head(all_ids), ttl_seconds, at)
          THEN <<Head(all_ids)>> ELSE <<>>)
         \o taxon_ids_to_fetch(c, Tail(all_ids), ttl_seconds, at)

\* Values of --ttl-seconds: 0 (the default: fetch new ids only) and two
\* positive ones.
TTLs == {0, 1, 2}

\* Lists of taxon ids, repetitions included.
IdLists == UNION {[1..n -> TaxonIds] : n \in 0..MaxIds}

(***************************************************************************)
(* create_refresh_list.py: source revision, filter, refresh, main          *)
(***************************************************************************)
\* sorted(int(x) for x in child_ids): insertion of x into a sorted list
RECURSIVE Insert(_, _)
Insert(x, s) ==
    IF s = <<>> THEN <<x>>
    ELSE IF x <= Head(s) THEN <<x>> \o s
    ELSE <<Head(s)>> \o Insert(x, Tail(s))

RECURSIVE Sorted(_)
Sorted(s) == IF s = <<>> THEN <<>> ELSE Insert(Head(s), Sorted(Tail(s)))

\* _stable_ids_hash(lepidoptera_id, child_ids): the digest of the canonical
\* JSON {"childIds": sorted list, "root": id}.  The JSON text determines the
\* root and the sorted list (repetitions kept) and is determined by them; the
\* digest is modelled as that pair, flattened.
stable_ids_hash_unsorted(lepidoptera_id, child_ids) ==
    <<lepidoptera_id>> \o child_ids
stable_ids_hash(lepidoptera_id, child_ids) ==
    <<lepidoptera_id>> \o Sorted(child_ids)

\* is_species_accepted_taxonomic(taxon_obj)
is_species_accepted_taxonomic(obj) ==
    obj.category = "Species" /\ obj.type = "Taxonomic" /\ obj.status = "Accepted"

\* write_source_rev: the dict dumped to lepidoptera_source_rev.json
SourceRev(lepidoptera_id, child_ids, source_hash, at) ==
    <<[lepidopteraTaxonId |-> lepidoptera_id, childCount |-> Len(child_ids),
       sourceHash |-> source_hash, updatedAt |-> at]>>

\* line 457-461: source_unchanged, from load_source_rev's result
source_unchanged(prev, source_hash, lepidoptera_id) ==
    /\ prev # <<>>
    /\ prev[1].sourceHash = source_hash
    /\ prev[1].lepidopteraTaxonId = lepidoptera_id

\* line 466: the fast-exit decision
fast_exit_taken_full_only(unchanged, args) ==
    unchanged /\ args.fast_exit /\ ~args.force /\ args.mode = "full"
fast_exit_taken(unchanged, args) == unchanged /\ args.fast_exit /\ ~args.force

\* _chunk(seq, n): the first chunk and the rest
FirstChunk(seq, n) == SubSeq(seq, 1, IF Len(seq) < n THEN Len(seq) ELSE n)
RestChunks(seq, n) == SubSeq(seq, (IF Len(seq) < n THEN Len(seq) ELSE n) + 1, Len(seq))

\* line 316-323: a 200 entry for every object of the payload.  The payload
\* holds at most one object per id, so the order of the writes is immaterial.
RECURSIVE write_returned(_, _, _)
write_returned(c, objs, at) ==
    IF objs = {} THEN c
    ELSE LET o == CHOOSE x \in objs : TRUE
         IN write_returned(write_cache(c, o.taxonId, 200, <<o>>, at), objs \ {o}, at)

\* line 325-327: a 404 entry for every id of the batch not returned
write_missing_nothing(c, batch, returned_ids, at) == c
RECURSIVE write_missing(_, _, _, _)
write_missing(c, batch, returned_ids, at) ==
    IF batch = <<>> THEN c
    ELSE write_missing(
             IF Head(batch) \notin returned_ids
             THEN write_cache(c, Head(batch), 404, NoPayload, at) ELSE c,
             Tail(batch), returned_ids, at)

\* line 316-327: the cache after one batch whose request returned `objs`
refresh_batch(c, batch, objs, at) ==
    write_missing(write_returned(c, objs, at), batch,
                  {o.taxonId : o \in objs}, at)

\* line 556-564: the hash passed to upsert_taxon
sha_for(c, tid, obj) ==
    IF tid \in DOMAIN c.meta /\ c.meta[tid].sha256 # NoSha
    THEN c.meta[tid].sha256
    ELSE taxon_sha256(obj)

\* line 545-574: the reconciliation loop.  acc holds the store, the three
\* tallies and active_species.
Tally(st, i, u, n, act) ==
    [store |-> st, inserted |-> i, updated |-> u, unchanged |-> n, active |-> act]

\* line 567-572: what one upsert result adds to inserted, updated, unchanged
inserted_step(change) == IF change = "inserted" THEN 1 ELSE 0
updated_step_strict(change) == IF change = "updated" THEN 1 ELSE 0
updated_step(change) == IF change \in {"updated", "reactivated"} THEN 1 ELSE 0
unchanged_step(change) == 1 - inserted_step(change) - updated_step(change)

RECURSIVE reconcile(_, _, _, _, _, _)
reconcile(acc, c, ids, ttl_seconds, run_id, at) ==
    IF ids = <<>> THEN acc
    ELSE LET tid == Head(ids)
             got == get_taxon_cached(c, tid, ttl_seconds, at)
         IN
         IF got = NoPayload \/ ~is_species_accepted_taxonomic(got[1])
         THEN reconcile(acc, c, Tail(ids), ttl_seconds, run_id, at)
         ELSE LET r == upsert_taxon(acc.store, run_id, got[1],
                                    sha_for(c, tid, got[1]), TRUE, at)
                  next ==
                      Tally(r.store,
                            acc.inserted + inserted_step(r.kind),
                            acc.updated + updated_step(r.kind),
                            acc.unchanged + unchanged_step(r.kind),
                            acc.active \cup {tid})
              IN reconcile(next, c, Tail(ids), ttl_seconds, run_id, at)

\* Command lines: --force, --only-refresh-cache ("cache") or
\* --only-build-lists ("lists") or neither ("full"), --fast-exit /
\* --no-fast-exit, --ttl-seconds, --batch-size.  --no-sqlite is read once,
\* at line 534, and is the choice between FinishNoSqlite and FinishSqlite.
Args(force, mode, fast_exit, ttl, batch_size) ==
    [force |-> force, mode |-> mode, fast_exit |-> fast_exit,
     ttl_seconds |-> ttl, batch_size |-> batch_size]

BatchSizes == {1, 2}

\* The invocations of main() are taken within one clock second (the clock
\* advances under SpecCache and SpecStore), where every --ttl-seconds leaves
\* the entries fresh; the value used is 0, "never stale" (line 239).
PipeTTLs == {0}

ArgsSet ==
    {Args(f, m, fx, ttl, bs) :
        f \in BOOLEAN, m \in {"full", "cache", "lists"},
        fx \in BOOLEAN, ttl \in PipeTTLs, bs \in BatchSizes}

NoArgs == Args(FALSE, "full", FALSE, 0, 1)

\* The locals of main() and of refresh_taxa_cache_batch; outcome says how the
\* last invocation ended, to_fetch is what is left to request, requested the
\* ids _taxon_ids_to_fetch selected, posts the batches answered so far.
RunRec(outcome, args, child_ids, source_hash, unchanged, to_fetch, written_ok, posts, requested) ==
    [outcome |-> outcome, args |-> args, child_ids |-> child_ids,
     source_hash |-> source_hash, source_unchanged |-> unchanged,
     to_fetch |-> to_fetch, written_ok |-> written_ok, posts |-> posts,
     requested |-> requested]

\* main() has returned or raised: how it ended and the options read at the
\* fast-exit check and the mode checks are kept.
Ended(outcome, args) ==
    RunRec(outcome, Args(args.force, args.mode, args.fast_exit, 0, 1),
           <<>>, NoHash, FALSE, <<>>, 0, 0, {})

(***************************************************************************)
(* State after construction: db_open on a fresh file, an empty cache       *)
(* directory, no source revision file, no run of main() in progress.       *)
(***************************************************************************)
NoCall == [op |-> "none"]
Writers == {1, 2}
IdleLoc == [op |-> "none"]
IdleRun == Ended("none", NoArgs)

Init ==
    /\ taxa = <<>>
    /\ changes = <<>>
    /\ runs = <<>>
    /\ next_local_index = 0
    /\ last_source_hash = NoHash
    /\ data = <<>>
    /\ meta = <<>>
    /\ now = 1
    /\ source_rev = <<>>
    /\ ret = NoCall
    /\ pc = "idle"
    /\ run = IdleRun
    /\ wpc = [w \in Writers |-> "start"]
    /\ wloc = [w \in Writers |-> IdleLoc]
    /\ handed = <<>>
    /\ nruns = 0
    /\ hist = <<>>

\* time.time() moves on between any two calls.
Advance(max) ==
    /\ now < max
    /\ now' = now + 1
    /\ UNCHANGED <<storeVars, cacheVars, pipeVars, concVars, ret>>

Tick == Advance(MaxTime)
StoreTick == Advance(MaxStoreTime)

(***************************************************************************)
(* SpecStore: the reconciliation store, one call per step                  *)
(***************************************************************************)
SetStore(st) ==
    /\ taxa' = st.taxa
    /\ changes' = st.changes
    /\ next_local_index' = st.next_local_index

\* begin_run(con, root, count) with the default source_hash=None
BeginRun ==
    /\ Len(runs) < MaxStoreRuns
    /\ runs' = Append(runs, RunRow(now, RootId, 0, NoHash))
    /\ ret' = [op |-> "begin_run", run_id |-> Len(runs) + 1]
    /\ UNCHANGED <<taxa, changes, next_local_index, last_source_hash,
                   cacheVars, now, pipeVars, concVars>>

\* The hashes a caller may pass with an object: none, the object's own
\* digest, or the digest of another version of the same taxon.
ShasFor(obj) ==
    {NoSha} \cup {taxon_sha256(o) : o \in {x \in TaxonObjs : x.taxonId = obj.taxonId}}

UpsertTaxon ==
    \E obj \in TaxonObjs, make_active \in BOOLEAN :
    \E sha256 \in ShasFor(obj) :
        LET r == upsert_taxon(CurStore, Len(runs), obj, sha256, make_active, now) IN
        /\ runs # <<>>
        /\ Len(r.store.changes) <= MaxChanges
        /\ SetStore(r.store)
        /\ ret' = [op |-> "upsert", taxon_id |-> obj.taxonId,
                   make_active |-> make_active, kind |-> r.kind]
        /\ UNCHANGED <<runs, last_source_hash, cacheVars, now, pipeVars, concVars>>

DeactivateMissingSpecies ==
    \E active_ids \in SUBSET TaxonIds :
        LET r == deactivate_missing_species(CurStore, Len(runs), active_ids, now) IN
        /\ runs # <<>>
        /\ Len(r.store.changes) <= MaxChanges
        /\ SetStore(r.store)
        /\ ret' = [op |-> "deactivate", active_ids |-> active_ids,
                   count |-> r.count]
        /\ UNCHANGED <<runs, last_source_hash, cacheVars, now, pipeVars, concVars>>

NextStore == BeginRun \/ UpsertTaxon \/ DeactivateMissingSpecies \/ StoreTick

SpecStore == Init /\ [][NextStore]_vars

(***************************************************************************)
(* SpecConc: two instances of the pipeline in their SQLite step, on the    *)
(* same database file.  Each statement group that SQLite runs under one    *)
(* write transaction is one step; the SELECTs that precede a transaction   *)
(* are steps of their own.                                                 *)
(***************************************************************************)
SetLoc(w, l) == wloc' = [wloc EXCEPT ![w] = l]
SetPc(w, p) == wpc' = [wpc EXCEPT ![w] = p]

\* A writer between two calls: its run_id (line 543) and the ids it has
\* upserted so far (active_species, line 546 and 574).
Between(run_id, active_species) ==
    [op |-> "none", run_id |-> run_id, active_species |-> active_species]

\* line 543: run_id = begin_run(...)
WBegin(w) ==
    /\ wpc[w] = "start"
    /\ Len(runs) < MaxConcRuns
    /\ runs' = Append(runs, RunRow(now, RootId, 0, NoHash))
    /\ SetLoc(w, Between(Len(runs) + 1, {}))
    /\ SetPc(w, "idle")
    /\ UNCHANGED <<taxa, changes, next_local_index, last_source_hash,
                   cacheVars, now, pipeVars, handed, ret>>

\* line 566 and 195-198: upsert_taxon(con, run_id, obj, sha, make_active=True)
\* is entered and reads the taxon's row.
WSelect(w) ==
    \E obj \in TaxonObjs :
        /\ wpc[w] = "idle"
        /\ Len(changes) < MaxChanges
        /\ SetLoc(w, [op |-> "upsert", run_id |-> wloc[w].run_id,
                      active_species |-> wloc[w].active_species, obj |-> obj,
                      sha256 |-> taxon_sha256(obj),
                      row |-> IF obj.taxonId \in DOMAIN taxa
                              THEN <<taxa[obj.taxonId]>> ELSE <<>>])
        /\ SetPc(w, "selected")
        /\ UNCHANGED <<storeVars, cacheVars, now, pipeVars, handed, ret>>

\* line 201: local_index = alloc_local_index(con), a transaction of its own
WAlloc(w) ==
    /\ wpc[w] = "selected"
    /\ wloc[w].row = <<>>
    /\ LET a == alloc_local_index(next_local_index) IN
       /\ next_local_index' = a.counter
       /\ handed' = Append(handed, a.index)
       /\ SetLoc(w, [wloc[w] EXCEPT !.row = <<a.index>>])
    /\ SetPc(w, "allocated")
    /\ UNCHANGED <<taxa, changes, runs, last_source_hash, cacheVars, now,
                   pipeVars, ret>>

\* line 202-214: the INSERTs and the commit; an IntegrityError ends the process
WInsert(w) ==
    /\ wpc[w] = "allocated"
    /\ LET l == wloc[w]
           r == upsert_insert(CurStore, l.row[1], l.run_id, l.obj, l.sha256,
                              TRUE, now)
       IN /\ SetStore(r.store)
          /\ SetPc(w, IF r.kind = "IntegrityError" THEN "crashed" ELSE "idle")
          /\ SetLoc(w, Between(l.run_id,
                                IF r.kind = "IntegrityError"
                                THEN l.active_species
                                ELSE l.active_species \cup {l.obj.taxonId}))
    /\ UNCHANGED <<runs, last_source_hash, cacheVars, now, pipeVars, handed, ret>>

\* line 216-257: the decision on the row read at line 195, the UPDATE, the
\* INSERT into changes and the commit
WWrite(w) ==
    /\ wpc[w] = "selected"
    /\ wloc[w].row # <<>>
    /\ LET l == wloc[w]
           r == upsert_existing(CurStore, l.row[1], l.run_id, l.obj, l.sha256,
                                TRUE, now)
       IN /\ SetStore(r.store)
          /\ SetPc(w, "idle")
          /\ SetLoc(w, Between(l.run_id, l.active_species \cup {l.obj.taxonId}))
    /\ UNCHANGED <<runs, last_source_hash, cacheVars, now, pipeVars, handed, ret>>

\* line 576 and 264-271: deactivate_missing_species is entered after the
\* loop, reads the active Species rows and returns 0 if none is missing.
WDeactSelect(w) ==
    /\ wpc[w] = "idle"
    /\ LET l == wloc[w]
           tids == to_deactivate(CurStore, l.active_species)
       IN /\ Len(changes) + Len(tids) <= MaxChanges
          /\ IF tids = <<>>
             THEN /\ SetPc(w, "done")
                  /\ SetLoc(w, l)
             ELSE /\ SetPc(w, "deactivating")
                  /\ SetLoc(w, [op |-> "deactivate", run_id |-> l.run_id,
                                active_species |-> l.active_species,
                                tids |-> tids])
    /\ UNCHANGED <<storeVars, cacheVars, now, pipeVars, handed, ret>>

\* line 273-281: BEGIN IMMEDIATE, the rows of the list read at line 265 set
\* inactive one by one, the commit.
WDeactWrite(w) ==
    /\ wpc[w] = "deactivating"
    /\ LET l == wloc[w] IN
       /\ SetStore(deactivate_all(CurStore, l.run_id, l.tids, now))
       /\ SetLoc(w, Between(l.run_id, l.active_species))
    /\ SetPc(w, "done")
    /\ UNCHANGED <<runs, last_source_hash, cacheVars, now, pipeVars, handed, ret>>

\* line 578-601 and 605: the run is closed, main() returns, and the
\* pipeline is invoked again
WAgain(w) ==
    /\ wpc[w] = "done"
    /\ SetPc(w, "start")
    /\ SetLoc(w, IdleLoc)
    /\ UNCHANGED <<storeVars, cacheVars, now, pipeVars, handed, ret>>

NextConc ==
    \E w \in Writers :
        \/ WBegin(w) \/ WSelect(w) \/ WAlloc(w) \/ WInsert(w) \/ WWrite(w)
        \/ WDeactSelect(w) \/ WDeactWrite(w) \/ WAgain(w)

SpecConc == Init /\ [][NextConc]_vars

(***************************************************************************)
(* SpecCache: the cache directory, one call per step                       *)
(***************************************************************************)
SetCache(c) ==
    /\ data' = c.data
    /\ meta' = c.meta

\* _write_cache as its callers use it: status 200 with the object returned,
\* or another status with or without an object.
WriteCache ==
    \E tid \in TaxonIds, status \in {200, 404} :
    \E payload \in {NoPayload} \cup {<<o>> : o \in {x \in TaxonObjs : x.taxonId = tid}} :
        /\ status = 200 => payload # NoPayload
        /\ SetCache(write_cache(CurCache, tid, status, payload, now))
        /\ ret' = [op |-> "put", taxon_id |-> tid, status |-> status]
        /\ UNCHANGED <<storeVars, now, pipeVars, concVars>>

GetTaxonCached ==
    \E tid \in TaxonIds, ttl \in TTLs :
        /\ ret' = [op |-> "get", taxon_id |-> tid, ttl |-> ttl,
                   val |-> get_taxon_cached(CurCache, tid, ttl, now)]
        /\ UNCHANGED <<storeVars, cacheVars, now, pipeVars, concVars>>

TaxonIdsToFetch ==
    \E ids \in IdLists, ttl \in TTLs :
        /\ ret' = [op |-> "select", ids |-> ids, ttl |-> ttl,
                   out |-> taxon_ids_to_fetch(CurCache, ids, ttl, now)]
        /\ UNCHANGED <<storeVars, cacheVars, now, pipeVars, concVars>>

NextCache == WriteCache \/ GetTaxonCached \/ TaxonIdsToFetch \/ Tick

SpecCache == Init /\ [][NextCache]_vars

(***************************************************************************)
(* SpecPut: _write_cache called with any id, status and payload            *)
(***************************************************************************)
\* HTTP statuses a put may record: success, not found, server error.
Statuses == {200, 404, 500}

PayloadsFor(tid) ==
    {NoPayload} \cup {<<o>> : o \in {x \in TaxonObjs : x.taxonId = tid}}

\* _write_cache(cache_dir, tid, status, payload) with arguments of any kind;
\* ret keeps what the id held before the call.
WriteCacheAny ==
    \E tid \in TaxonIds, status \in Statuses :
    \E payload \in PayloadsFor(tid) :
        /\ SetCache(write_cache(CurCache, tid, status, payload, now))
        /\ ret' = [op |-> "put", taxon_id |-> tid, status |-> status,
                   had_payload |-> tid \in DOMAIN data,
                   old_status |-> IF tid \in DOMAIN meta THEN meta[tid].status ELSE 0]
        /\ UNCHANGED <<storeVars, now, pipeVars, concVars>>

NextPut == WriteCacheAny \/ Tick

SpecPut == Init /\ [][NextPut]_vars

(***************************************************************************)
(* SpecCrash: _write_cache called with any id, status and payload, where a *)
(* call may end between its two file operations                            *)
(***************************************************************************)
WriteCacheInterrupted ==
    \E tid \in TaxonIds, status \in Statuses :
    \E payload \in PayloadsFor(tid) :
        /\ SetCache(write_cache_interrupted(CurCache, tid, status, payload))
        /\ ret' = [op |-> "put_interrupted", taxon_id |-> tid, status |-> status,
                   had_payload |-> tid \in DOMAIN data,
                   old_status |-> IF tid \in DOMAIN meta THEN meta[tid].status ELSE 0]
        /\ UNCHANGED <<storeVars, now, pipeVars, concVars>>

NextCrash == WriteCacheAny \/ WriteCacheInterrupted \/ Tick

SpecCrash == Init /\ [][NextCrash]_vars

(***************************************************************************)
(* SpecCorrupt: the cache directory with metadata files that get damaged   *)
(* between a write and a read                                              *)
(***************************************************************************)
\* The content of an existing metadata file is replaced by something
\* _write_cache did not dump (a torn write, a damaged disk, an edit).
CorruptMeta ==
    \E tid \in DOMAIN meta, bad \in {InvalidJson, NotADict} :
        /\ ~Malformed(meta[tid])
        /\ meta' = [meta EXCEPT ![tid] = bad]
        /\ ret' = [op |-> "corrupt", taxon_id |-> tid]
        /\ UNCHANGED <<storeVars, data, now, pipeVars, concVars>>

\* get_taxon_cached as main() calls it at line 505 and 549: a value or an
\* exception that nothing catches
GetOrRaise ==
    \E tid \in TaxonIds, ttl \in TTLs :
        /\ ret' = IF get_taxon_cached_raises(CurCache, tid)
                  THEN [op |-> "get", taxon_id |-> tid, raised |-> TRUE,
                        val |-> NoPayload]
                  ELSE [op |-> "get", taxon_id |-> tid, raised |-> FALSE,
                        val |-> IF tid \in DOMAIN meta /\ Malformed(meta[tid])
                                THEN NoPayload
                                ELSE get_taxon_cached(CurCache, tid, ttl, now)]
        /\ UNCHANGED <<storeVars, cacheVars, now, pipeVars, concVars>>

\* _taxon_ids_to_fetch as refresh_taxa_cache_batch calls it at line 298
SelectOrRaise ==
    \E ids \in IdLists, ttl \in TTLs :
        /\ ret' = IF taxon_ids_to_fetch_raises(CurCache, ids)
                  THEN [op |-> "select", ids |-> ids, raised |-> TRUE,
                        out |-> <<>>]
                  ELSE [op |-> "select", ids |-> ids, raised |-> FALSE,
                        out |-> taxon_ids_to_fetch(CurCache, ids, ttl, now)]
        /\ UNCHANGED <<storeVars, cacheVars, now, pipeVars, concVars>>

NextCorrupt == WriteCache \/ CorruptMeta \/ GetOrRaise \/ SelectOrRaise

SpecCorrupt == Init /\ [][NextCorrupt]_vars

(***************************************************************************)
(* SpecPipe: invocations of main(), one after the other, against the cache *)
(* directory, the database, the source revision file and the remote.       *)
(***************************************************************************)
\* main() returns: the invocation ran to completion.
Complete(outcome, args) ==
    /\ pc' = "idle"
    /\ run' = Ended(outcome, args)
    /\ hist' = <<[root |-> RootId, ids |-> Sorted(run.child_ids)]>>

WriteSourceRev ==
    source_rev' = SourceRev(RootId, run.child_ids, run.source_hash, now)

\* line 486-498 onwards, with the locals r: after refresh_taxa_cache_batch
\* has returned (or was skipped)
AfterRefresh(r) ==
    IF r.args.mode = "cache"
    THEN /\ WriteSourceRev
         /\ Complete("cache_only", r.args)
    ELSE /\ pc' = "lists"
         /\ run' = r
         /\ UNCHANGED <<source_rev, hist>>

\* ret holds the request and the answer of the last POST /taxa of the
\* running process; a process that starts or ends holds none.
\* line 423-461: the root is resolved, the child ids are fetched, the source
\* hash is computed and compared with the source revision file.  The command
\* line is fixed when the process starts; each option is drawn where the code
\* first reads it, which is the same choice made later.
StartWith(max_runs, lists) ==
    \E child_ids \in lists :
        /\ pc = "idle"
        /\ nruns < max_runs
        /\ nruns' = nruns + 1
        /\ pc' = "started"
        /\ LET h == stable_ids_hash(RootId, child_ids) IN
           run' = RunRec("running", NoArgs, child_ids, h,
                         source_unchanged(source_rev, h, RootId), <<>>, 0, 0, {})
        /\ ret' = NoCall
        /\ UNCHANGED <<storeVars, cacheVars, now, source_rev, hist, concVars>>

Start == StartWith(MaxRuns, IdLists)

\* line 463-470: fast exit
FastExitWith(command_lines) ==
    \E args \in command_lines :
        /\ pc = "started"
        /\ fast_exit_taken(run.source_unchanged, args)
        /\ pc' = "idle"
        /\ run' = Ended("fast_exit", args)
        /\ hist' = <<[root |-> RootId, ids |-> Sorted(run.child_ids)]>>
        /\ UNCHANGED <<storeVars, cacheVars, now, source_rev, nruns, concVars, ret>>

FastExit == FastExitWith(ArgsSet)

\* line 473-484 and 298-300: no fast exit; the ids to fetch are selected
\* unless --only-build-lists
SelectWith(command_lines) ==
    \E args \in command_lines :
        /\ pc = "started"
        /\ ~fast_exit_taken(run.source_unchanged, args)
        /\ LET r == [run EXCEPT !.args = args] IN
           IF args.mode = "lists"
           THEN AfterRefresh(r)
           ELSE LET tf == taxon_ids_to_fetch(CurCache, run.child_ids,
                                             args.ttl_seconds, now)
                IN IF tf = <<>>
                   THEN AfterRefresh(r)
                   ELSE /\ pc' = "fetch"
                        /\ run' = [r EXCEPT !.to_fetch = tf,
                                            !.requested = SeqToSet(tf)]
                        /\ UNCHANGED <<source_rev, hist>>
        /\ UNCHANGED <<storeVars, cacheVars, now, nruns, concVars, ret>>

Select == SelectWith(ArgsSet)

\* What POST /taxa may return for a batch: objects for some of the ids
\* requested, at most one per id.
Responses(batch) ==
    {objs \in SUBSET {o \in RemoteObjs : o.taxonId \in SeqToSet(batch)} :
        \A o1, o2 \in objs : o1.taxonId = o2.taxonId => o1 = o2}

\* line 305: the loop over the chunks has run out
refresh_done_early(r) == TRUE
refresh_done(r) == r.to_fetch = <<>>

\* line 313-314: the cache after a batch whose request failed; the raise
\* comes before the first _write_cache of the batch
refresh_failed_marks(c, batch, at) == write_missing(c, batch, {}, at)
refresh_failed(c, batch, at) == c

\* line 305-327: one batch is requested and answered with a list; ret keeps
\* the request and its answer
FetchBatch ==
    /\ pc = "fetch"
    /\ LET batch == FirstChunk(run.to_fetch, run.args.batch_size)
           rest == RestChunks(run.to_fetch, run.args.batch_size)
       IN \E objs \in Responses(batch) :
           LET r == [run EXCEPT !.to_fetch = rest,
                                !.written_ok = @ + Cardinality(objs),
                                !.posts = @ + 1]
           IN /\ SetCache(refresh_batch(CurCache, batch, objs, now))
              /\ ret' = [op |-> "post", batch |-> batch, objs |-> objs]
              /\ IF refresh_done(r)
                 THEN AfterRefresh(r)
                 ELSE /\ pc' = "fetch"
                      /\ run' = r
                      /\ UNCHANGED <<source_rev, hist>>
    /\ UNCHANGED <<storeVars, now, nruns, concVars>>

\* line 161-168 and 313-314: the request fails or its answer is no list;
\* the exception ends main().  The number of batches answered before is kept.
FetchFail ==
    /\ pc = "fetch"
    /\ pc' = "idle"
    /\ run' = [Ended("error", run.args) EXCEPT !.posts = run.posts]
    /\ SetCache(refresh_failed(CurCache,
                               FirstChunk(run.to_fetch, run.args.batch_size), now))
    /\ ret' = NoCall
    /\ UNCHANGED <<storeVars, now, source_rev, nruns, hist, concVars>>

\* line 500-540: the lists are built; with --no-sqlite main() ends here
FinishNoSqlite ==
    /\ pc = "lists"
    /\ WriteSourceRev
    /\ Complete("no_sqlite", run.args)
    /\ ret' = NoCall
    /\ UNCHANGED <<storeVars, cacheVars, now, nruns, concVars>>

\* line 542-586: the database after begin_run, the loop over child_ids,
\* deactivate_missing_species and end_run
sqlite_step(st, rows, c, child_ids, source_hash, ttl_seconds, at) ==
    LET run_id == Len(rows) + 1
        acc == reconcile(Tally(st, 0, 0, 0, {}), c, child_ids, ttl_seconds,
                         run_id, at)
        d == deactivate_missing_species(acc.store, run_id, acc.active, at)
    IN [store |-> d.store,
        runs |-> Append(rows,
                    end_run(RunRow(at, RootId, Len(child_ids), source_hash), at,
                            Cardinality(acc.active), acc.inserted, acc.updated,
                            acc.unchanged, d.count))]

\* line 500-601: the lists are built, the database is reconciled, the source
\* revision is written
FinishSqlite ==
    /\ pc = "lists"
    /\ LET r == sqlite_step(CurStore, runs, CurCache, run.child_ids,
                            run.source_hash, run.args.ttl_seconds, now)
       IN /\ Len(r.store.changes) <= MaxChanges
          /\ SetStore(r.store)
          /\ runs' = r.runs
    /\ last_source_hash' = run.source_hash
    /\ WriteSourceRev
    /\ Complete("full", run.args)
    /\ ret' = NoCall
    /\ UNCHANGED <<cacheVars, now, nruns, concVars>>

NextPipe ==
    \/ Start \/ FastExit \/ Select \/ FetchBatch \/ FetchFail
    \/ FinishNoSqlite \/ FinishSqlite

SpecPipe == Init /\ [][NextPipe]_vars

(***************************************************************************)
(* SpecAging: invocations of main() in full mode with a positive or zero   *)
(* --ttl-seconds while the clock advances between any two steps            *)
(***************************************************************************)
AgingTTLs == {0, 1}

AgingArgs ==
    {Args(FALSE, "full", fx, ttl, bs) :
        fx \in BOOLEAN, ttl \in AgingTTLs, bs \in BatchSizes}

AgingStart == StartWith(MaxAgedRuns, IdLists)
AgingFastExit == FastExitWith(AgingArgs)
AgingSelect == SelectWith(AgingArgs)
AgingTick == Advance(MaxAgedTime)

NextAging ==
    \/ AgingStart \/ AgingFastExit \/ AgingSelect \/ FetchBatch \/ FetchFail
    \/ FinishNoSqlite \/ FinishSqlite \/ AgingTick

SpecAging == Init /\ [][NextAging]_vars

(***************************************************************************)
(* Properties of the store driven call by call (SpecStore)                 *)
(***************************************************************************)

\* C2 - Upsert idempotence.  After an upsert with a supplied hash returned
\* 'inserted' (the taxon was absent) or 'unchanged', the same call made again
\* (same record, same hash, same make_active; after 'inserted' the row holds
\* the record and the hash of that call) returns 'unchanged' and leaves taxa,
\* changes and the allocator counter as they are.
C2_UpsertIdempotent ==
    (ret.op = "upsert" /\ ret.kind \in {"inserted", "unchanged"}) =>
        LET tid == ret.taxon_id
            row == taxa[tid]
            again(obj) == upsert_taxon(CurStore, Len(runs), obj, row.sha256,
                                       ret.make_active, now)
        IN  row.sha256 # NoSha =>
                \A obj \in TaxonObjs :
                    (obj.taxonId = tid
                       /\ (ret.kind = "inserted" => raw_json(obj) = row.raw_json))
                    => /\ again(obj).kind = "unchanged"
                       /\ again(obj).store = CurStore

\* C2 witness: one insert, then an upsert of the same taxon returned unchanged.
C2_Witness ==
    /\ ret.op = "upsert" /\ ret.kind = "unchanged"
    /\ Len(changes) = 1
    /\ changes[1].change_type = "inserted"
    /\ changes[1].taxon_id = ret.taxon_id
    /\ changes[1].new_sha256 # NoSha

InsertedAt(i) == changes[i].change_type = "inserted"

\* C3 - Sequence uniqueness and order.  All rows of taxa carry pairwise
\* distinct local_index values, and of two taxa the one inserted later (its
\* 'inserted' change comes later in the log) has the greater local_index.
C3_SequenceUniqueAndOrdered ==
    /\ \A t1, t2 \in DOMAIN taxa :
           t1 # t2 => taxa[t1].local_index # taxa[t2].local_index
    /\ \A i, j \in 1..Len(changes) :
           (i < j /\ InsertedAt(i) /\ InsertedAt(j)) =>
               taxa[changes[i].taxon_id].local_index
                   < taxa[changes[j].taxon_id].local_index

\* C3 witness: two taxa have been inserted, one after the other.
C3_Witness ==
    \E i, j \in 1..Len(changes) :
        i < j /\ InsertedAt(i) /\ InsertedAt(j) /\ Cardinality(DOMAIN taxa) = 2

\* C5 - Reconciliation completeness.  In every reachable state and for every
\* active_ids, deactivate_missing_species leaves inactive every row that was
\* active, of category Species and not in active_ids; keeps the active flag
\* of every row whose id is in active_ids; and returns the number of rows it
\* switched from active to inactive.
C5_DeactivateComplete ==
    \A active_ids \in SUBSET TaxonIds :
        LET r == deactivate_missing_species(CurStore, Len(runs), active_ids, now)
            after == r.store.taxa
        IN  /\ DOMAIN after = DOMAIN taxa
            /\ \A t \in DOMAIN taxa :
                   (taxa[t].is_active = 1 /\ taxa[t].category = "Species"
                      /\ t \notin active_ids) => after[t].is_active = 0
            /\ \A t \in DOMAIN taxa :
                   t \in active_ids => after[t].is_active = taxa[t].is_active
            /\ r.count = Cardinality({t \in DOMAIN taxa :
                             taxa[t].is_active = 1 /\ after[t].is_active = 0})

\* C5 witness: a deactivation pass has just switched one row off and left a
\* row listed in active_ids active.
C5_Witness ==
    /\ ret.op = "deactivate" /\ ret.count = 1
    /\ \E t \in DOMAIN taxa : t \in ret.active_ids /\ taxa[t].is_active = 1
    /\ \E t \in DOMAIN taxa : t \notin ret.active_ids /\ taxa[t].is_active = 0
                                 /\ taxa[t].category = "Species"
    /\ changes[Len(changes)].change_type = "deactivated"

\* C21 - Deactivation changes only the active flag.  In every reachable
\* state and for every active_ids, deactivate_missing_species appends, for
\* each row it sets inactive, one 'deactivated' change whose old and new hash
\* both equal the hash the row stores, and leaves the row's hash, names,
\* category, type, status, index and raw_json as they were; the rows it does
\* not deactivate are left whole, and nothing else is appended.
C21_DeactivationKeepsContent ==
    \A active_ids \in SUBSET TaxonIds :
        LET r == deactivate_missing_species(CurStore, Len(runs), active_ids, now)
            after == r.store.taxa
            off == {t \in DOMAIN taxa :
                       taxa[t].is_active = 1 /\ after[t].is_active = 0}
            new == {i \in DOMAIN r.store.changes : i > Len(changes)}
        IN  /\ SubSeq(r.store.changes, 1, Len(changes)) = changes
            /\ Cardinality(new) = Cardinality(off)
            /\ \A i \in new : r.store.changes[i].taxon_id \in off
            /\ \A t \in off :
                   /\ \E i \in new :
                          r.store.changes[i] =
                              [run_id |-> Len(runs), taxon_id |-> t,
                               change_type |-> "deactivated",
                               old_sha256 |-> taxa[t].sha256,
                               new_sha256 |-> taxa[t].sha256, at |-> now]
                   /\ after[t].sha256 = taxa[t].sha256
                   /\ after[t].sci_name = taxa[t].sci_name
                   /\ after[t].category = taxa[t].category
                   /\ after[t].type = taxa[t].type
                   /\ after[t].status = taxa[t].status
                   /\ after[t].raw_json = taxa[t].raw_json
                   /\ after[t].local_index = taxa[t].local_index
            /\ \A t \in DOMAIN taxa \ off : after[t] = taxa[t]

\* C21 witness: a pass has just deactivated a row that was inserted with the
\* digest of its record; the row still stores that digest and its raw_json,
\* and the change carries the digest as old and as new hash.
C21_Witness ==
    /\ ret.op = "deactivate" /\ ret.count = 1
    /\ Len(changes) = 2
    /\ LET c == changes[2] IN
       /\ c.change_type = "deactivated"
       /\ c.old_sha256 = c.new_sha256
       /\ c.new_sha256 = taxa[c.taxon_id].sha256
       /\ c.new_sha256 = taxon_sha256(taxa[c.taxon_id].raw_json)
       /\ c.new_sha256 = changes[1].new_sha256
       /\ taxa[c.taxon_id].is_active = 0
       /\ taxa[c.taxon_id].updated_at > changes[1].at

\* An upsert_taxon call on the current store.
Call(obj, sha256, make_active) ==
    upsert_taxon(CurStore, Len(runs), obj, sha256, make_active, now)

\* The store after the call holds the changes of before and one more, rec.
AppendsOnly(r, rec) == r.store.changes = Append(changes, rec)

\* The inserted row apart from its active flag: a fresh index (the counter's
\* value, held by no row, the counter moved past it), the record's fields,
\* the supplied hash; one 'inserted' change with an empty prior hash.
InsertedAs(r, obj, sha256, active) ==
    LET tid == obj.taxonId IN
    /\ r.kind = "inserted"
    /\ DOMAIN r.store.taxa = DOMAIN taxa \cup {tid}
    /\ \A t \in DOMAIN taxa : r.store.taxa[t] = taxa[t]
    /\ r.store.taxa[tid] = TaxaRow(next_local_index, obj, active, sha256, now)
    /\ \A t \in DOMAIN taxa : taxa[t].local_index < next_local_index
    /\ r.store.next_local_index = next_local_index + 1
    /\ AppendsOnly(r, [run_id |-> Len(runs), taxon_id |-> tid,
                       change_type |-> "inserted", old_sha256 |-> NoSha,
                       new_sha256 |-> sha256, at |-> now])

\* C16 as stated - Upsert on an absent taxon.  For every record, hash and
\* make_active, upsert on a taxon with no row returns 'inserted', creates an
\* active row with a fresh index and appends one 'inserted' change from the
\* empty hash to the supplied hash.
C16_InsertIsActive ==
    \A obj \in TaxonObjs, make_active \in BOOLEAN :
    \A sha256 \in ShasFor(obj) :
        obj.taxonId \notin DOMAIN taxa =>
            InsertedAs(Call(obj, sha256, make_active), obj, sha256, 1)

\* C16 amended - Upsert on an absent taxon.  For every record, hash and
\* make_active, upsert on a taxon with no row returns 'inserted', creates a
\* row with a fresh index that is active when make_active is true and
\* inactive when it is false, and appends one 'inserted' change from the
\* empty hash to the supplied hash.
C16_InsertFollowsMakeActive ==
    \A obj \in TaxonObjs, make_active \in BOOLEAN :
    \A sha256 \in ShasFor(obj) :
        obj.taxonId \notin DOMAIN taxa =>
            InsertedAs(Call(obj, sha256, make_active), obj, sha256,
                       IF make_active THEN 1 ELSE 0)

\* C16 witness: the second taxon has just been inserted with make_active
\* false; its row is inactive and carries the second index.
C16_Witness ==
    /\ ret.op = "upsert" /\ ret.kind = "inserted" /\ ~ret.make_active
    /\ taxa[ret.taxon_id].is_active = 0
    /\ taxa[ret.taxon_id].local_index = 1
    /\ Len(changes) = 2
    /\ changes[2].change_type = "inserted" /\ changes[2].old_sha256 = NoSha

\* C17 - Reactivation.  For every record and hash (equal to the stored one
\* or not), upsert with make_active true on an inactive row returns
\* 'reactivated', leaves the row active with the record's fields and the
\* supplied hash under its old index, and appends one 'reactivated' change
\* whose prior hash is the hash stored before.
C17_Reactivation ==
    \A obj \in TaxonObjs :
    \A sha256 \in ShasFor(obj) :
        LET tid == obj.taxonId
            r == Call(obj, sha256, TRUE)
        IN (tid \in DOMAIN taxa /\ taxa[tid].is_active = 0) =>
               /\ r.kind = "reactivated"
               /\ r.store.taxa =
                      [taxa EXCEPT ![tid] =
                          TaxaRow(taxa[tid].local_index, obj, 1, sha256, now)]
               /\ r.store.next_local_index = next_local_index
               /\ AppendsOnly(r, [run_id |-> Len(runs), taxon_id |-> tid,
                                  change_type |-> "reactivated",
                                  old_sha256 |-> taxa[tid].sha256,
                                  new_sha256 |-> sha256, at |-> now])

\* C17 witness: a deactivation pass switched a row off and an upsert with the
\* stored hash then reactivated it: the log ends deactivated, reactivated.
C17_Witness ==
    /\ ret.op = "upsert" /\ ret.kind = "reactivated"
    /\ Len(changes) = 3
    /\ changes[2].change_type = "deactivated"
    /\ changes[3].change_type = "reactivated"
    /\ changes[2].taxon_id = ret.taxon_id /\ changes[3].taxon_id = ret.taxon_id
    /\ changes[3].old_sha256 = changes[3].new_sha256
    /\ taxa[ret.taxon_id].is_active = 1

\* C18 - Forced update.  On an active row, for every record and either
\* make_active, an upsert with no hash, or with a hash that differs from the
\* stored one, returns 'updated', rewrites the row from the record with the
\* supplied hash (the row stays active, its index stays) and appends one
\* 'updated' change from the stored hash to the supplied one.
C18_ForcedUpdate ==
    \A obj \in TaxonObjs, make_active \in BOOLEAN :
    \A sha256 \in ShasFor(obj) :
        LET tid == obj.taxonId
            r == Call(obj, sha256, make_active)
        IN (/\ tid \in DOMAIN taxa /\ taxa[tid].is_active = 1
            /\ (sha256 = NoSha \/ sha256 # taxa[tid].sha256)) =>
               /\ r.kind = "updated"
               /\ r.store.taxa =
                      [taxa EXCEPT ![tid] =
                          TaxaRow(taxa[tid].local_index, obj, 1, sha256, now)]
               /\ r.store.next_local_index = next_local_index
               /\ AppendsOnly(r, [run_id |-> Len(runs), taxon_id |-> tid,
                                  change_type |-> "updated",
                                  old_sha256 |-> taxa[tid].sha256,
                                  new_sha256 |-> sha256, at |-> now])

\* C18 witness: two upserts in a row carried no hash for a row that already
\* stored none, and each was recorded as 'updated'.
C18_Witness ==
    /\ ret.op = "upsert" /\ ret.kind = "updated"
    /\ Len(changes) = 3
    /\ \A i \in {2, 3} :
           /\ changes[i].change_type = "updated"
           /\ changes[i].taxon_id = ret.taxon_id
           /\ changes[i].new_sha256 = NoSha
    /\ changes[3].old_sha256 = NoSha
    /\ taxa[ret.taxon_id].is_active = 1

\* C19 - Frame of upsert.  For every record, hash and make_active, an upsert
\* that returns 'unchanged' leaves taxa, changes and the allocator counter
\* as they are, and an upsert that returns another kind appends exactly one
\* change, of that kind and for that taxon, to the changes of before.
C19_UpsertFrame ==
    \A obj \in TaxonObjs, make_active \in BOOLEAN :
    \A sha256 \in ShasFor(obj) :
        LET r == Call(obj, sha256, make_active) IN
        IF r.kind = "unchanged"
        THEN r.store = CurStore
        ELSE /\ r.kind \in {"inserted", "updated", "reactivated"}
             /\ Len(r.store.changes) = Len(changes) + 1
             /\ SubSeq(r.store.changes, 1, Len(changes)) = changes
             /\ r.store.changes[Len(changes) + 1].change_type = r.kind
             /\ r.store.changes[Len(changes) + 1].taxon_id = obj.taxonId

\* C19 witness: an upsert with make_active false and the stored hash has
\* just returned 'unchanged' on an inactive row, after an insert and a
\* deactivation; the log still holds those two changes only.
C19_Witness ==
    /\ ret.op = "upsert" /\ ret.kind = "unchanged" /\ ~ret.make_active
    /\ taxa[ret.taxon_id].is_active = 0
    /\ Len(changes) = 2
    /\ changes[2].change_type = "deactivated"
    /\ changes[2].taxon_id = ret.taxon_id

(***************************************************************************)
(* Properties of two concurrent writers (SpecConc)                         *)
(***************************************************************************)

\* C4 - Under two writers whose upsert steps interleave in any order, the
\* allocator never returns the same index to two allocations, and no two
\* rows of taxa hold the same local_index.
C4_ConcurrentAllocDistinct ==
    /\ \A i, j \in 1..Len(handed) : i # j => handed[i] # handed[j]
    /\ \A t1, t2 \in DOMAIN taxa :
           t1 # t2 => taxa[t1].local_index # taxa[t2].local_index

\* C4 witness: both writers allocated before either inserted, and the rows
\* went in against allocation order.
C4_Witness ==
    /\ Len(handed) >= 2
    /\ \E i, j \in 1..Len(changes) :
           /\ i < j /\ InsertedAt(i) /\ InsertedAt(j)
           /\ changes[i].run_id # changes[j].run_id
           /\ taxa[changes[i].taxon_id].local_index
                  > taxa[changes[j].taxon_id].local_index

\* C20 - Sequence index stability.  No step of a writer (an upsert that
\* updates, reactivates or leaves a row, a deactivation pass, an insert that
\* fails) removes a row or changes the local_index of a row that exists; a
\* row that appears carries an index the allocator handed out; and an index
\* the allocator hands out has never been handed out before, whether or not
\* the insert it was handed out for went through.
C20_IndexAssignedOnce ==
    [][/\ \A t \in DOMAIN taxa :
              /\ t \in DOMAIN taxa'
              /\ taxa'[t].local_index = taxa[t].local_index
       /\ \A t \in DOMAIN taxa' \ DOMAIN taxa :
              taxa'[t].local_index \in SeqToSet(handed)
       /\ Len(handed') >= Len(handed)
       /\ SubSeq(handed', 1, Len(handed)) = handed
       /\ \A i \in (Len(handed) + 1)..Len(handed') :
              /\ handed'[i] \notin SeqToSet(handed)
              /\ \A t \in DOMAIN taxa : taxa[t].local_index # handed'[i]]_vars

\* C20 witness: a writer's insert failed after its allocation, so index 1 is
\* held by no row; a later insert got index 2; and the first row, still at
\* index 0, has since been deactivated by a deactivation pass.
C20_Witness ==
    /\ \E w \in Writers : wpc[w] = "crashed"
    /\ handed = <<0, 1, 2>>
    /\ \A t \in DOMAIN taxa : taxa[t].local_index # 1
    /\ \E t \in DOMAIN taxa : taxa[t].local_index = 2
    /\ \E t \in DOMAIN taxa : taxa[t].local_index = 0 /\ taxa[t].is_active = 0
    /\ changes[Len(changes)].change_type = "deactivated"

\* C23 - Atomic deactivation.  Under two writers, a step appends a
\* 'deactivated' change only for a row that is active in the state the step
\* starts from; hence no row gets a second 'deactivated' change while it is
\* inactive.
C23_DeactivationAtomic ==
    [][\A i \in (DOMAIN changes') \ (DOMAIN changes) :
          changes'[i].change_type = "deactivated" =>
              taxa[changes'[i].taxon_id].is_active = 1]_vars

(***************************************************************************)
(* Properties of the cache driven call by call (SpecCache)                 *)
(***************************************************************************)
\* The TTL rule of the data model: with TTL = 0 a fetched entry is never
\* stale; with TTL > 0 it is stale once now - fetched_at >= TTL.
Stale(m, ttl) == ttl > 0 /\ now - m.fetched_at >= ttl

HasEntry(tid) == tid \in DOMAIN meta

\* C9 - Cache get contract.  After any puts and any elapsed time, for every
\* id and ttl, get returns a payload exactly when an entry for the id exists,
\* its status is 200 and it is not stale under ttl, and the payload returned
\* is the stored one; otherwise it returns none.
C9_GetContract ==
    \A tid \in TaxonIds, ttl \in TTLs :
        LET got == get_taxon_cached(CurCache, tid, ttl, now) IN
        /\ got # NoPayload <=>
               (HasEntry(tid) /\ meta[tid].status = 200 /\ ~Stale(meta[tid], ttl))
        /\ got # NoPayload => got = <<data[tid]>>

\* C9 witness: a get has returned the payload of an entry that is older than
\* zero seconds, and the same entry is stale under another ttl.
C9_Witness ==
    /\ ret.op = "get" /\ ret.val # NoPayload
    /\ ret.val = <<data[ret.taxon_id]>>
    /\ now > meta[ret.taxon_id].fetched_at
    /\ \E ttl \in TTLs : get_taxon_cached(CurCache, ret.taxon_id, ttl, now) = NoPayload
    /\ \E t \in TaxonIds : HasEntry(t) /\ meta[t].status = 404

\* C10 - Staleness selection.  For every list of ids and every ttl, the
\* selection is, in input order, exactly the ids that have no cache entry or
\* whose entry is stale under the TTL rule.
C10_SelectStale ==
    \A ids \in IdLists, ttl \in TTLs :
        LET Wanted(t) == ~HasEntry(t) \/ Stale(meta[t], ttl) IN
        taxon_ids_to_fetch(CurCache, ids, ttl, now) = SelectSeq(ids, Wanted)

\* C13 - Partial batch failure.  When the request for a chunk of a refresh
\* fails, main() ends with the error, and the step leaves the cache as the
\* chunks answered before left it: no entry is written for an id of the
\* failing chunk or of a later one; the source revision is not written.
C13_PartialBatchFailure ==
    [][(pc = "fetch" /\ run'.outcome = "error") =>
          /\ pc' = "idle"
          /\ UNCHANGED cacheVars
          /\ UNCHANGED source_rev]_vars

\* C13 witness: the first invocation failed on its second chunk; the cache
\* holds the entry the first chunk wrote and none for the second chunk's id.
C13_Witness ==
    /\ pc = "idle" /\ run.outcome = "error"
    /\ nruns = 1
    /\ run.posts = 1
    /\ Cardinality(DOMAIN meta) = 1

\* C14 - Ordering of phases.  Within an invocation the store (runs, taxa,
\* changes, counter, last source hash) is written only once the refresh is
\* over, every batch answered; the steps before it, a failing request
\* included, leave the store as it was.
C14_StoreAfterRefresh ==
    [][/\ (storeVars' # storeVars => (pc = "lists" /\ run.to_fetch = <<>>))
       /\ (run'.outcome = "error" => UNCHANGED storeVars)]_vars

\* C14 witness: an invocation failed in its refresh after a batch had been
\* answered, against a store that an earlier invocation had filled.
C14_Witness ==
    /\ pc = "idle" /\ run.outcome = "error"
    /\ run.posts >= 1
    /\ runs # <<>> /\ changes # <<>>

(***************************************************************************)
(* Properties of main() run while the clock advances (SpecAging)           *)
(***************************************************************************)
\* The id was selected for fetch by this invocation and the answer to the
\* last batch that held it left it out: its entry is negative.
RequestedAndOmitted(tid) ==
    /\ tid \in run.requested
    /\ tid \in DOMAIN meta
    /\ meta[tid].status = 404

\* The changes appended by the step for taxon tid.
AppendedFor(tid) ==
    {i \in (DOMAIN changes') \ (DOMAIN changes) : changes'[i].taxon_id = tid}

\* C22 - Refresh writes every selected id.  Every answered batch leaves, for
\* each id of the batch, an entry stamped with the time of the write: with
\* status 200, the object as payload and the object's digest if the answer
\* held an object for the id, with status 404 and no payload if it did not;
\* entries of other ids are not touched; the count grows by the number of
\* 200 entries written.  When the refresh returns, every id selected for
\* fetch has an entry of status 200 with a payload and its digest or of
\* status 404 without payload.
C22_RefreshWritesEverySelected ==
    [][(pc = "fetch" /\ run'.posts = run.posts + 1) =>
          LET batch == SeqToSet(FirstChunk(run.to_fetch, run.args.batch_size))
              objs == ret'.objs
              ok == {tid \in batch : \E o \in objs : o.taxonId = tid}
          IN  /\ ret'.op = "post" /\ SeqToSet(ret'.batch) = batch
              /\ \A o \in objs :
                     /\ o.taxonId \in DOMAIN data' /\ data'[o.taxonId] = o
                     /\ meta'[o.taxonId] =
                            [taxon_id |-> o.taxonId, status |-> 200,
                             fetched_at |-> now, sha256 |-> taxon_sha256(o)]
              /\ \A tid \in batch \ ok :
                     /\ tid \notin DOMAIN data'
                     /\ tid \in DOMAIN meta'
                     /\ meta'[tid] = [taxon_id |-> tid, status |-> 404,
                                      fetched_at |-> now, sha256 |-> NoSha]
              /\ \A tid \in TaxonIds \ batch :
                     /\ (tid \in DOMAIN meta' <=> tid \in DOMAIN meta)
                     /\ (tid \in DOMAIN data' <=> tid \in DOMAIN data)
                     /\ tid \in DOMAIN meta => meta'[tid] = meta[tid]
                     /\ tid \in DOMAIN data => data'[tid] = data[tid]
              /\ run'.written_ok = run.written_ok + Cardinality(ok)
              /\ Cardinality(ok) =
                     Cardinality({tid \in batch : meta'[tid].status = 200})
              /\ pc' # "fetch" =>
                     \A tid \in run.requested :
                         /\ tid \in DOMAIN meta'
                         /\ \/ /\ meta'[tid].status = 200
                               /\ tid \in DOMAIN data'
                               /\ meta'[tid].sha256 = taxon_sha256(data'[tid])
                            \/ /\ meta'[tid].status = 404
                               /\ tid \notin DOMAIN data']_vars

\* C22 witness: a refresh of two ids in two batches has returned 1; the
\* answer to the first batch held an object, the answer to the second left
\* its id out, and the two entries were written at different times.
C22_Witness ==
    /\ pc = "lists" /\ run.requested = {1, 2}
    /\ run.posts = 2 /\ run.written_ok = 1
    /\ ret.op = "post" /\ ret.objs = {}
    /\ \E t \in {1, 2} :
           /\ meta[t].status = 200 /\ t \in DOMAIN data
           /\ meta[3 - t].status = 404 /\ (3 - t) \notin DOMAIN data
           /\ meta[t].fetched_at < meta[3 - t].fetched_at

\* C25 - Deactivation only for what is gone.  When the SQLite step of a
\* full invocation sets an active Species row inactive, the row's id is not
\* among the invocation's child ids, or the cache as the refresh left it
\* holds no 200 entry with a payload for the id, or the payload is not an
\* accepted taxonomic species; whatever the ttl and the time that has passed
\* since the selection.
C25_DeactivatedOnlyIfGone ==
    [][(pc = "lists" /\ Len(runs') = Len(runs) + 1) =>
          \A tid \in DOMAIN taxa :
              (/\ taxa[tid].is_active = 1
               /\ taxa[tid].category = "Species"
               /\ taxa'[tid].is_active = 0) =>
                  \/ tid \notin SeqToSet(run.child_ids)
                  \/ tid \notin DOMAIN meta
                  \/ meta[tid].status # 200
                  \/ tid \notin DOMAIN data
                  \/ ~is_species_accepted_taxonomic(data[tid])]_vars

\* C15 - Scenario C.  When a full invocation reaches its SQLite step with a
\* Species row that is active from an earlier invocation and whose id it
\* requested and the remote omitted, the step leaves the row inactive,
\* appends exactly one change for it, of kind 'deactivated' and under the
\* run's run_id, and the run's deactivated tally counts its 'deactivated'
\* changes, this one included.
C15_OmittedIsDeactivated ==
    [][(pc = "lists" /\ Len(runs') = Len(runs) + 1 /\ run.args.mode = "full") =>
          \A tid \in DOMAIN taxa :
              (/\ taxa[tid].is_active = 1
               /\ taxa[tid].category = "Species"
               /\ RequestedAndOmitted(tid)) =>
                  /\ taxa'[tid].is_active = 0
                  /\ Cardinality(AppendedFor(tid)) = 1
                  /\ \A i \in AppendedFor(tid) :
                         /\ changes'[i].change_type = "deactivated"
                         /\ changes'[i].run_id = Len(runs')
                  /\ runs'[Len(runs')].deactivated_count =
                         Cardinality({i \in DOMAIN changes' :
                             /\ changes'[i].run_id = Len(runs')
                             /\ changes'[i].change_type = "deactivated"})
                  /\ runs'[Len(runs')].deactivated_count >= 1]_vars

\* C15 witness: the second run is closed; its last change deactivated a
\* taxon whose negative entry was written after the first run had finished,
\* and its deactivated tally is 1.
C15_Witness ==
    /\ pc = "idle" /\ run.outcome = "full"
    /\ Len(runs) = 2
    /\ runs[2].deactivated_count = 1
    /\ changes # <<>>
    /\ LET c == changes[Len(changes)] IN
       /\ c.change_type = "deactivated" /\ c.run_id = 2
       /\ taxa[c.taxon_id].is_active = 0
       /\ c.taxon_id \in DOMAIN meta
       /\ meta[c.taxon_id].status = 404
       /\ meta[c.taxon_id].fetched_at > runs[1].finished_at

(***************************************************************************)
(* Properties of the cache under puts of any kind (SpecPut)                *)
(***************************************************************************)

\* C11 - Cache-store invariant.  After any sequence of puts (any ids,
\* statuses and payloads, overwrites included), an entry whose recorded
\* status is not 200 has no payload stored.
C11_NegativeHasNoPayload ==
    \A tid \in DOMAIN meta : meta[tid].status # 200 => tid \notin DOMAIN data

\* C11 witness: a put with a status other than 200 and a payload has just
\* overwritten a 200 entry that held a payload, and another id holds a 200
\* entry written over a negative one.
C11_Witness ==
    /\ ret.op = "put" /\ ret.status # 200
    /\ ret.had_payload /\ ret.old_status = 200
    /\ meta[ret.taxon_id].status = ret.status
    /\ \E t \in DOMAIN data : t # ret.taxon_id /\ meta[t].status = 200

(***************************************************************************)
(* Properties of the cache under puts that may be interrupted (SpecCrash)  *)
(***************************************************************************)

\* C27 - Hash matches payload.  In every state reached through puts, a put
\* that ended between its data write and its metadata write included, an id
\* that has a data file and metadata of status 200 has no metadata sha256
\* other than the digest of the stored payload: the hash the reconciliation
\* loop passes to upsert_taxon is the digest of the record it passes.
C27_HashMatchesPayload ==
    \A tid \in (DOMAIN data) \cap (DOMAIN meta) :
        meta[tid].status = 200 =>
            sha_for(CurCache, tid, data[tid]) = taxon_sha256(data[tid])

(***************************************************************************)
(* Properties of the cache with damaged metadata (SpecCorrupt)             *)
(***************************************************************************)

\* C12 - Cache corruption is never fatal.  Whatever metadata files are
\* malformed, a get returns without raising and returns none for an id whose
\* metadata is malformed, and a staleness selection returns without raising
\* and selects every id of its list whose metadata is malformed.
C12_CorruptNeverFatal ==
    /\ ret.op = "get" =>
           /\ ~ret.raised
           /\ (ret.taxon_id \in DOMAIN meta /\ Malformed(meta[ret.taxon_id]))
                  => ret.val = NoPayload
    /\ ret.op = "select" =>
           /\ ~ret.raised
           /\ \A t \in SeqToSet(ret.ids) :
                  (t \in DOMAIN meta /\ Malformed(meta[t]))
                      => t \in SeqToSet(ret.out)

(***************************************************************************)
(* Properties of main() run again and again (SpecPipe)                     *)
(***************************************************************************)

\* C1 - Negative-cache stability.  When the staleness selection of a run has
\* just been made (no batch requested yet), no id selected holds a negative
\* (404) cache entry that is not stale under the run's ttl; the entries of
\* the cache are the ones refresh has written.
C1_NegativeStable ==
    (pc = "fetch" /\ run.posts = 0) =>
        \A tid \in SeqToSet(run.to_fetch) :
            ~(/\ HasEntry(tid)
              /\ meta[tid].status = 404
              /\ ~Stale(meta[tid], run.args.ttl_seconds))

\* The ChangeRecords of kind `kind` that carry run_id `rid`.
CountChanges(rid, kind) ==
    Cardinality({i \in DOMAIN changes :
                    changes[i].run_id = rid /\ changes[i].change_type = kind})

Closed(rid) == rid \in DOMAIN runs /\ runs[rid].finished_at # 0

\* C6 as stated - Run-ledger consistency.  For every closed run the recorded
\* inserted, updated and deactivated tallies equal the numbers of
\* ChangeRecords of kind inserted, updated and deactivated with its run_id.
C6_LedgerByKind ==
    \A rid \in DOMAIN runs :
        Closed(rid) =>
            /\ runs[rid].inserted_count = CountChanges(rid, "inserted")
            /\ runs[rid].updated_count = CountChanges(rid, "updated")
            /\ runs[rid].deactivated_count = CountChanges(rid, "deactivated")

\* C6 amended - Run-ledger consistency.  For every closed run the recorded
\* inserted and deactivated tallies equal the numbers of ChangeRecords of
\* kind inserted and deactivated with its run_id, and the recorded updated
\* tally equals the number of its ChangeRecords of kind updated plus the
\* number of kind reactivated.
C6_LedgerMatches ==
    \A rid \in DOMAIN runs :
        Closed(rid) =>
            /\ runs[rid].inserted_count = CountChanges(rid, "inserted")
            /\ runs[rid].updated_count =
                   CountChanges(rid, "updated") + CountChanges(rid, "reactivated")
            /\ runs[rid].deactivated_count = CountChanges(rid, "deactivated")

\* C6 witness: three runs are closed; one recorded an insertion, one a
\* deactivation, and the last a reactivation counted in its updated tally.
C6_Witness ==
    /\ Len(runs) = 3
    /\ \A rid \in DOMAIN runs : Closed(rid)
    /\ \E rid \in DOMAIN runs : runs[rid].inserted_count > 0
    /\ \E rid \in DOMAIN runs : runs[rid].deactivated_count > 0
    /\ CountChanges(3, "reactivated") = 1
    /\ runs[3].updated_count = 1

\* C26 - Species count.  For every closed run the recorded species_count
\* equals inserted_count + updated_count + unchanged_count, whatever child
\* list the remote returned (an id may occur in it more than once).
C26_SpeciesCountIsSum ==
    \A rid \in DOMAIN runs :
        Closed(rid) =>
            runs[rid].species_count =
                runs[rid].inserted_count + runs[rid].updated_count
                    + runs[rid].unchanged_count

\* C24 - The source revision follows the store.  Whenever the source
\* revision file holds a hash, the runs table holds a closed run recorded
\* with that source hash.
C24_MarkerImpliesReconciled ==
    source_rev # <<>> =>
        \E rid \in DOMAIN runs :
            Closed(rid) /\ runs[rid].source_hash = source_rev[1].sourceHash

\* The invocation at the fast-exit check has the root and the sorted child
\* ids of the invocation that returned before it.
SameSourceAsPrevious ==
    /\ pc = "started"
    /\ hist # <<>>
    /\ hist[1].root = RootId
    /\ hist[1].ids = Sorted(run.child_ids)

\* C7 - Fast-exit correctness.  When an invocation has the root id and the
\* sorted child ids of the invocation that ran to completion before it, and
\* fast exit is enabled and not forced, it returns at the check: it requests
\* no batch and writes nothing to the store (no run row, no taxa change, no
\* ChangeRecord).
C7_FastExitCorrect ==
    [][(SameSourceAsPrevious /\ run'.args.fast_exit /\ ~run'.args.force) =>
          /\ pc' = "idle"
          /\ run'.outcome = "fast_exit"
          /\ run'.posts = 0
          /\ UNCHANGED storeVars]_vars

\* C7 witness: an invocation has returned at the fast-exit check; its child
\* list was not empty and the store held a closed run and a ChangeRecord.
C7_Witness ==
    /\ pc = "idle"
    /\ run.outcome = "fast_exit"
    /\ nruns >= 2
    /\ hist[1].ids # <<>>
    /\ runs # <<>>
    /\ changes # <<>>

\* C8 as stated - cache-only and list-only modes bypass the fast exit: no
\* invocation in mode --only-refresh-cache or --only-build-lists over a
\* child list that is not empty returns at the fast-exit check.
C8_ModesBypass ==
    ~(/\ pc = "idle"
      /\ run.outcome = "fast_exit"
      /\ run.args.mode \in {"cache", "lists"}
      /\ hist[1].ids # <<>>)

\* C8 amended - cache-only and list-only modes do not bypass the fast exit.
\* When the source hash equals the persisted one, an invocation in mode
\* --only-refresh-cache or --only-build-lists with fast exit enabled and not
\* forced returns at the check, the cache and the source revision untouched;
\* and an invocation in such a mode that goes on to the refresh or the list
\* build was forced or had fast exit disabled.
C8_ModesDoNotBypass ==
    [][(/\ pc = "started"
        /\ run.source_unchanged
        /\ run'.args.mode \in {"cache", "lists"}) =>
          IF run'.args.fast_exit /\ ~run'.args.force
          THEN /\ pc' = "idle"
               /\ run'.outcome = "fast_exit"
               /\ UNCHANGED <<cacheVars, source_rev>>
          ELSE run'.outcome # "fast_exit"]_vars

\* C8 witness: an invocation in cache-only or list-only mode has returned at
\* the fast-exit check while an id of its child list had no cache entry.
C8_Witness ==
    /\ pc = "idle"
    /\ run.outcome = "fast_exit"
    /\ run.args.mode \in {"cache", "lists"}
    /\ \E tid \in SeqToSet(hist[1].ids) : ~HasEntry(tid)

====
